---- MODULE Spec2Model ----
(***************************************************************************)
(* Model of the nlp-benchmarking training entry point (train.py) and of    *)
(* the offline MFU backfill script (src/compute_mfu.py).                   *)
(*                                                                         *)
(* A schedule value is a rational [n, d] that stands for the binary64      *)
(* float nearest to n/d, as Python reads the literal; int(goal * v) and    *)
(* int(v / u) are computed with the roundings of binary64 arithmetic.  A   *)
(* throughput of compute_mfu is an exact value n/d * 2^two * 5^five.       *)
(***************************************************************************)
EXTENDS Integers, Sequences, FiniteSets, TLC

VARIABLES
    procs,          \* the processes executing main (one per device)
    IS_ON_SLURM,    \* SLURMEnvironment.detect()
    cuda_device_count, \* torch.cuda.device_count()
    pc,             \* pc[p]: position of process p in dargparse/main
    cli,            \* cli[p]: the argument values as parsed, before __post_init__
    args,           \* args[p]: the TrainingArgs object (mutated in place)
    loc,            \* loc[p]: main's local variables
    built,          \* built[p]: training resources constructed so far
    calls,          \* calls[p]: trainer methods called so far
    sink,           \* sink[p]: values handed to ModelCheckpoint and Trainer
    wandb_summary,  \* wandb_summary[p]: summary keys written by process p
    mpc,            \* position of the compute_mfu script
    runs,           \* api.runs(...): the tag-filtered collection
    idx,            \* index of the run the for loop is at (1-based)
    mloc,           \* compute_mfu's loop locals
    local_summary,  \* local_summary[i]: run.summary fields set and not yet sent
    store,          \* store[i]: summary fields committed to the tracking store
    update_calls,   \* update_calls[i]: number of run.summary.update() calls
    printed         \* number of lines printed

mainVars == <<procs, IS_ON_SLURM, cuda_device_count, pc, cli, args, loc, built, calls, sink, wandb_summary>>
mfuVars  == <<mpc, runs, idx, mloc, local_summary, store, update_calls, printed>>
vars     == <<mainVars, mfuVars>>

(***************************************************************************)
(* Bounds of the model.                                                    *)
(***************************************************************************)
MaxGoal == 6
MaxProcs == 2
MaxRuns == 2
MaxSeqMult == 2

None == "None"

Max(a, b) == IF a >= b THEN a ELSE b
Min(a, b) == IF a <= b THEN a ELSE b

RECURSIVE GCD(_, _)
GCD(a, b) == IF b = 0 THEN a ELSE GCD(b, a % b)

(***************************************************************************)
(* Rationals [n, d] with d > 0, in lowest terms.                           *)
(***************************************************************************)
Rat(n, d) == LET g == GCD(IF n < 0 THEN -n ELSE n, d)
             IN  [n |-> n \div g, d |-> d \div g]

IntRat(k) == [n |-> k, d |-> 1]

\* Python's int(n/d): truncation toward zero.
PyInt(n, d) == IF n >= 0 THEN n \div d ELSE -((-n) \div d)

\* v < 1
LessThanOne(v) == v.n < v.d

Abs(x) == IF x < 0 THEN -x ELSE x

RECURSIVE Pow(_, _)
Pow(b, k) == IF k = 0 THEN 1 ELSE b * Pow(b, k - 1)

(***************************************************************************)
(* Binary64 arithmetic of `int(training_goal * v)` and `int(v / units)`.   *)
(* The float of n/d is (n * 2^s + RoundErr(n, d)) / (d * 2^s) with         *)
(* s = 52 - Log2Floor(n, d): a 53-bit significand, rounded to nearest,     *)
(* ties to even.  Denominators and unit fractions stay below 2^14.         *)
(***************************************************************************)
\* floor(log2(n / d)) for n, d > 0
RECURSIVE Log2Floor(_, _)
Log2Floor(n, d) ==
    IF n \div 2 >= d THEN 1 + Log2Floor(n, 2 * d)
    ELSE IF n < d THEN Log2Floor(2 * n, d) - 1
    ELSE 0

\* 2^s mod m
RECURSIVE PowMod2(_, _)
PowMod2(s, m) == IF s = 0 THEN 1 % m ELSE (2 * PowMod2(s - 1, m)) % m

RoundErr(n, d) ==
    IF n = 0 \/ d = 1 THEN 0
    ELSE LET s == 52 - Log2Floor(n, d)
             R == ((n % (2 * d)) * PowMod2(s, 2 * d)) % (2 * d)
             r0 == R % d
             odd == R \div d
         IN  IF 2 * r0 < d THEN -r0
             ELSE IF 2 * r0 > d THEN d - r0
             ELSE IF odd = 0 THEN -r0 ELSE d - r0

\* e such that the floats just below the integer k >= 1 are 2^(e - 52) apart
GapExp(k) ==
    LET e == Log2Floor(k, 1)
    IN  IF k = Pow(2, e) THEN e - 1 ELSE e

\* Naturals beyond 32 bits: eight limbs to the base 2^15, least significant first.
Limb == Pow(2, 15)
Limbs == 1..8

Wide(k) ==
    [i \in Limbs |-> CASE i = 1 -> k % Limb
                       [] i = 2 -> (k \div Limb) % Limb
                       [] i = 3 -> k \div (Limb * Limb)
                       [] OTHER -> 0]

RECURSIVE WideCarry(_, _, _)
WideCarry(a, m, i) == IF i = 0 THEN 0 ELSE (a[i] * m + WideCarry(a, m, i - 1)) \div Limb

\* a * m for 0 <= m < 2^15
WideTimes(a, m) == [i \in Limbs |-> (a[i] * m + WideCarry(a, m, i - 1)) % Limb]

\* a * 2^x
WideShift(a, x) ==
    LET w == WideTimes(a, Pow(2, x % 15))
        j == x \div 15
    IN  [i \in Limbs |-> IF i > j THEN w[i - j] ELSE 0]

RECURSIVE WideSumCarry(_, _, _)
WideSumCarry(a, b, i) ==
    IF i = 0 THEN 0 ELSE (a[i] + b[i] + WideSumCarry(a, b, i - 1)) \div Limb

WidePlus(a, b) == [i \in Limbs |-> (a[i] + b[i] + WideSumCarry(a, b, i - 1)) % Limb]

\* -1, 0 or 1 as a < b, a = b or a > b, comparing limbs i, i - 1, ..., 1
RECURSIVE WideCmp(_, _, _)
WideCmp(a, b, i) ==
    IF i = 0 THEN 0
    ELSE IF a[i] < b[i] THEN -1
    ELSE IF a[i] > b[i] THEN 1
    ELSE WideCmp(a, b, i - 1)

\* int(goal * float(n/d)) for goal, n >= 0: the exact product unless that is an
\* integer k that the float product falls short of.
TruncProduct(goal, n, d) ==
    IF n = 0 \/ goal = 0 THEN 0
    ELSE IF (goal * n) % d # 0 THEN (goal * n) \div d
    ELSE LET k == (goal * n) \div d
             t == RoundErr(n, d)
             x == GapExp(k) - Log2Floor(n, d) - 1
         IN  IF t >= 0 THEN k
             ELSE IF WideCmp(WideShift(WideTimes(Wide(goal), -t), Max(-x, 0)),
                             WideShift(Wide(d), Max(x, 0)), 8) <= 0
                  THEN k
                  ELSE k - 1

\* int(float(n/d) / float(nu/du)) for n >= 0 and nu > 0
TruncQuotient(n, d, nu, du) ==
    IF n = 0 THEN 0
    ELSE IF (n * du) % (d * nu) # 0 THEN (n * du) \div (d * nu)
    ELSE LET k == (n * du) \div (d * nu)
             tA == RoundErr(n, d)
             tB == RoundErr(nu, du)
             x1 == Log2Floor(n, d) - Log2Floor(nu, du)
             x2 == GapExp(k) - 1 - Log2Floor(nu, du)
             m == Min(0, Min(x1, x2))
             T1 == WideShift(WideTimes(Wide(Abs(tA)), du), x1 - m)
             T2 == WideShift(WideTimes(WideTimes(Wide(k), d), Abs(tB)), -m)
             T3 == WideShift(WideTimes(Wide(d), nu), x2 - m)
             above == WidePlus(T3, WidePlus(IF tA > 0 THEN T1 ELSE Wide(0),
                                            IF tB < 0 THEN T2 ELSE Wide(0)))
             below == WidePlus(IF tA < 0 THEN T1 ELSE Wide(0),
                               IF tB > 0 THEN T2 ELSE Wide(0))
             c == WideCmp(above, below, 8)
         IN  IF tA = 0 /\ tB = 0 THEN k
             ELSE IF c > 0 \/ (c = 0 /\ tB >= 0) THEN k
             ELSE k - 1

\* int(goal * v) for an integer goal
IntMul(goal, v) ==
    LET r == Rat(v.n, v.d)
        m == TruncProduct(Abs(goal), Abs(r.n), r.d)
    IN  IF (goal < 0) = (r.n < 0) THEN m ELSE -m

\* int(v / u)
IntQuot(v, u) ==
    LET a == Rat(v.n, v.d)
        b == Rat(u.n, u.d)
        m == TruncQuotient(Abs(a.n), a.d, Abs(b.n), b.d)
    IN  IF (a.n < 0) = (b.n < 0) THEN m ELSE -m

(***************************************************************************)
(* Exact stand-in for the floats of compute_mfu: n/d * 2^two * 5^five,     *)
(* with n and d coprime to each other and to 10 (a unique form, so that    *)
(* equal values are equal records).                                        *)
(***************************************************************************)
RECURSIVE Norm(_, _, _, _)
Norm(n, d, two, five) ==
    IF n = 0 THEN [n |-> 0, d |-> 1, two |-> 0, five |-> 0]
    ELSE IF n % 2 = 0 THEN Norm(n \div 2, d, two + 1, five)
    ELSE IF n % 5 = 0 THEN Norm(n \div 5, d, two, five + 1)
    ELSE IF d % 2 = 0 THEN Norm(n, d \div 2, two - 1, five)
    ELSE IF d % 5 = 0 THEN Norm(n, d \div 5, two, five - 1)
    ELSE LET g == GCD(n, d)
         IN  [n |-> n \div g, d |-> d \div g, two |-> two, five |-> five]

\* the integer k, and the decimal literal m * 10^e
FromInt(k) == Norm(k, 1, 0, 0)
FromDec(m, e) == Norm(m, 1, e, e)

FMul(a, b) ==
    LET g1 == GCD(a.n, b.d)
        g2 == GCD(b.n, a.d)
    IN  Norm((a.n \div g1) * (b.n \div g2), (a.d \div g2) * (b.d \div g1),
             a.two + b.two, a.five + b.five)

FDiv(a, b) ==
    LET g1 == GCD(a.n, b.n)
        g2 == GCD(a.d, b.d)
    IN  Norm((a.n \div g1) * (b.d \div g2), (a.d \div g2) * (b.n \div g1),
             a.two - b.two, a.five - b.five)

FAdd(a, b) ==
    IF a.n = 0 THEN b
    ELSE IF b.n = 0 THEN a
    ELSE LET two == Min(a.two, b.two)
             five == Min(a.five, b.five)
             g == GCD(a.d, b.d)
             an == a.n * Pow(2, a.two - two) * Pow(5, a.five - five)
             bn == b.n * Pow(2, b.two - two) * Pow(5, b.five - five)
         IN  Norm(an * (b.d \div g) + bn * (a.d \div g), (a.d \div g) * b.d, two, five)

(***************************************************************************)
(* TrainingArgs.__post_init__: fractions of the training goal become       *)
(* absolute counts; explicit CUDA device ids fix the device count.         *)
(***************************************************************************)
resolve_fraction(goal, v) ==
    IF LessThanOne(v) THEN IntRat(IntMul(goal, v)) ELSE v

post_init(a) ==
    [a EXCEPT !.val_frequency = resolve_fraction(a.training_goal, a.val_frequency),
              !.model_log_frequency = resolve_fraction(a.training_goal, a.model_log_frequency),
              !.lr_warmup = resolve_fraction(a.training_goal, a.lr_warmup),
              !.num_devices = IF Len(a.cuda_device_ids) > 0
                              THEN Len(a.cuda_device_ids)
                              ELSE a.num_devices]

(***************************************************************************)
(* main, lines 294-303: the automatic device count and the check of the    *)
(* requested CUDA devices (raised: the ValueError of line 301).            *)
(* choose_auto_devices comes from src/helpers.py, which is not part of the *)
(* sources: it is taken to return the visible devices, one without any.    *)
(***************************************************************************)
choose_auto_devices(device_count) == IF device_count > 0 THEN device_count ELSE 1

auto_arguments(a, device_count) ==
    [args |-> [a EXCEPT !.num_devices = IF a.num_devices = -1
                                        THEN choose_auto_devices(device_count)
                                        ELSE a.num_devices],
     raised |-> Len(a.cuda_device_ids) > 0 /\ device_count < Len(a.cuda_device_ids)]

(***************************************************************************)
(* main, lines 373-376: a W&B checkpoint reference is replaced by the path *)
(* of the downloaded file (the helper is imported from dlib).              *)
(***************************************************************************)
check_for_wandb_checkpoint_and_download_if_necessary(checkpoint_path) ==
    IF checkpoint_path = "wandb" THEN "downloaded" ELSE checkpoint_path

(***************************************************************************)
(* handle_batch_size_logic_ (src/helpers.py is not part of the sources):   *)
(* sets gradient_accumulation_steps and the realized effective batch size  *)
(* on args and returns the effective batch size per forward pass.  An      *)
(* effective_batch_size of None is written 0.                              *)
(***************************************************************************)
CeilDiv(a, b) == (a + b - 1) \div b

handle_batch_size_logic_round_down(a) ==
    LET per_step == a.batch_size_per_device * a.num_devices
        gas == IF a.effective_batch_size = 0
               THEN 1
               ELSE Max(1, a.effective_batch_size \div per_step)
    IN  [args |-> [a EXCEPT !.gradient_accumulation_steps = gas,
                            !.effective_batch_size = per_step * gas],
         effective_batch_size_per_step |-> per_step]

handle_batch_size_logic_(a) ==
    LET per_step == a.batch_size_per_device * a.num_devices
        gas == IF a.effective_batch_size = 0
               THEN 1
               ELSE Max(1, CeilDiv(a.effective_batch_size, per_step))
    IN  [args |-> [a EXCEPT !.gradient_accumulation_steps = gas,
                            !.effective_batch_size = per_step * gas],
         effective_batch_size_per_step |-> per_step]

(***************************************************************************)
(* main, lines 327-337: goal units per optimizer step and per forward pass *)
(* (raised: the ValueError of line 337).                                   *)
(***************************************************************************)
RecognizedUnits == {"samples", "tokens", "optimizer-steps"}

GoalUnits(raised, upos, upfp) ==
    [raised |-> raised,
     goal_units_per_optimizer_step |-> upos,
     goal_units_per_forward_pass |-> upfp]

goal_units_fallthrough(a, per_step) ==
    IF a.training_goal_unit = "tokens"
    THEN GoalUnits(FALSE, IntRat(a.effective_batch_size * a.max_sequence_length),
                   IntRat(per_step * a.max_sequence_length))
    ELSE IF a.training_goal_unit = "optimizer-steps"
    THEN GoalUnits(FALSE, IntRat(1), Rat(1, a.gradient_accumulation_steps))
    ELSE GoalUnits(FALSE, IntRat(a.effective_batch_size), IntRat(per_step))

goal_units_forward_pass_is_step(a, per_step) ==
    CASE a.training_goal_unit = "samples" ->
           GoalUnits(FALSE, IntRat(a.effective_batch_size), IntRat(a.effective_batch_size))
      [] a.training_goal_unit = "tokens" ->
           GoalUnits(FALSE, IntRat(a.effective_batch_size * a.max_sequence_length),
                     IntRat(a.effective_batch_size * a.max_sequence_length))
      [] a.training_goal_unit = "optimizer-steps" ->
           GoalUnits(FALSE, IntRat(1), IntRat(1))
      [] OTHER ->
           GoalUnits(TRUE, IntRat(1), IntRat(1))

goal_units(a, per_step) ==
    CASE a.training_goal_unit = "samples" ->
           GoalUnits(FALSE, IntRat(a.effective_batch_size), IntRat(per_step))
      [] a.training_goal_unit = "tokens" ->
           GoalUnits(FALSE, IntRat(a.effective_batch_size * a.max_sequence_length),
                     IntRat(per_step * a.max_sequence_length))
      [] a.training_goal_unit = "optimizer-steps" ->
           GoalUnits(FALSE, IntRat(1), Rat(1, a.gradient_accumulation_steps))
      [] OTHER ->
           GoalUnits(TRUE, IntRat(1), IntRat(1))

(***************************************************************************)
(* main, lines 340-346: the schedule in trainer units.                     *)
(***************************************************************************)
resolve_schedule_round_up(a, upos, upfp) ==
    [args |-> [a EXCEPT
        !.training_goal = CeilDiv(a.training_goal * upos.d, upos.n),
        !.val_frequency = IntRat(IntQuot(a.val_frequency, upfp)),
        !.model_log_frequency = IntRat(IntQuot(a.model_log_frequency, upos)),
        !.lr_warmup = IntRat(IntQuot(a.lr_warmup, upos))],
     val_frequency_in_optimization_steps |-> IntQuot(a.val_frequency, upos)]

resolve_schedule_all_per_forward_pass(a, upos, upfp) ==
    [args |-> [a EXCEPT
        !.training_goal = IntQuot(IntRat(a.training_goal), upos),
        !.val_frequency = IntRat(IntQuot(a.val_frequency, upfp)),
        !.model_log_frequency = IntRat(IntQuot(a.model_log_frequency, upfp)),
        !.lr_warmup = IntRat(IntQuot(a.lr_warmup, upfp))],
     val_frequency_in_optimization_steps |-> IntQuot(a.val_frequency, upos)]

resolve_schedule(a, upos, upfp) ==
    [args |-> [a EXCEPT
        !.training_goal = IntQuot(IntRat(a.training_goal), upos),
        !.val_frequency = IntRat(IntQuot(a.val_frequency, upfp)),
        !.model_log_frequency = IntRat(IntQuot(a.model_log_frequency, upos)),
        !.lr_warmup = IntRat(IntQuot(a.lr_warmup, upos))],
     val_frequency_in_optimization_steps |-> IntQuot(a.val_frequency, upos)]

(***************************************************************************)
(* main, lines 484-494: which summary keys a process writes after fit.     *)
(***************************************************************************)
SummaryKeys == {"Number of Workers", "Compile", "Precision", "Means"}

final_summary_every_rank(rank, interrupted, on_slurm) ==
    IF interrupted /\ on_slurm THEN {} ELSE SummaryKeys

final_summary(rank, interrupted, on_slurm) ==
    IF interrupted /\ on_slurm
    THEN {}
    ELSE IF rank = 0 THEN SummaryKeys ELSE {}

(***************************************************************************)
(* The arguments given on the command line.                                *)
(***************************************************************************)
Goals == (1..MaxGoal) \cup {1000, 10000000}
ScheduleValues == {Rat(1, 20), Rat(1, 2), IntRat(1), IntRat(3), Rat(5, 2)}
\* values whose float product or quotient is not the exact one: 0.29, 0.7, 3, 1.2
RoundingValues == {Rat(29, 100), Rat(7, 10), IntRat(3), Rat(6, 5)}
Units == RecognizedUnits \cup {"invalid"}
BatchSizes == {1, 3, 64}
RequestedBatchSizes == {0, 4, 256}
SequenceLengths == {2, 512}
CheckpointPaths == {None, "local", "wandb"}

TrainingArgs(goal, unit, vfq, mfq, warm, bspd, eb, seq, nd, ids, vbt, vo, resume, ckpt) ==
    [training_goal |-> goal,
     training_goal_unit |-> unit,
     val_frequency |-> vfq,
     model_log_frequency |-> mfq,
     lr_warmup |-> warm,
     batch_size_per_device |-> bspd,
     effective_batch_size |-> eb,
     gradient_accumulation_steps |-> 1,
     max_sequence_length |-> seq,
     num_devices |-> nd,
     cuda_device_ids |-> ids,
     val_before_training |-> vbt,
     val_only |-> vo,
     resume_training |-> resume,
     checkpoint_path |-> ckpt]

\* One process, every combination of the schedule arguments, default flags.
ScheduleArgs ==
    { TrainingArgs(goal, unit, vfq, mfq, warm, bspd, eb, seq, nd, <<>>, TRUE, FALSE, FALSE, None) :
        goal \in Goals, unit \in Units, vfq \in ScheduleValues, mfq \in ScheduleValues,
        warm \in ScheduleValues, bspd \in BatchSizes, eb \in RequestedBatchSizes,
        seq \in SequenceLengths, nd \in 1..2 }

\* One process, a goal of 10 or 100, one sample per forward pass.
RoundingArgs ==
    { TrainingArgs(goal, unit, vfq, mfq, warm, 1, eb, 512, 1, <<>>, TRUE, FALSE, FALSE, None) :
        goal \in {10, 100}, unit \in {"samples", "optimizer-steps"},
        vfq \in RoundingValues, mfq \in RoundingValues, warm \in RoundingValues,
        eb \in {0, 5, 75} }

\* --cuda_device_ids 0 1 ... k-1
DeviceIds(k) == [i \in 1..k |-> i - 1]

\* One process, default schedule arguments, every way of asking for devices.
DeviceArgs ==
    { TrainingArgs(10000000, unit, Rat(1, 20), Rat(1, 10), Rat(1, 10), 42, 0, 512, nd,
                   DeviceIds(k), TRUE, FALSE, FALSE, None) :
        unit \in {"samples", "invalid"}, nd \in {-1} \cup (1..MaxProcs), k \in 0..MaxProcs }

\* One process per device, default schedule arguments, every combination of flags.
RankArgs(nd) ==
    { TrainingArgs(10000000, unit, Rat(1, 20), Rat(1, 10), Rat(1, 10), 42, 0, 512, nd,
                   <<>>, vbt, vo, resume, ckpt) :
        unit \in {"samples", "invalid"}, vbt \in BOOLEAN, vo \in BOOLEAN,
        resume \in BOOLEAN, ckpt \in CheckpointPaths }

\* Locals not assigned yet hold 0 (FALSE for trainer.interrupted).
NoLocals ==
    [current_process_rank |-> 0,
     effective_batch_size_per_step |-> 0,
     goal_units_per_optimizer_step |-> IntRat(0),
     goal_units_per_forward_pass |-> IntRat(0),
     val_frequency_in_optimization_steps |-> 0,
     interrupted |-> FALSE]

NoSink == [every_n_train_steps |-> 0, max_steps |-> 0, accumulate_grad_batches |-> 0]

MfuIdle ==
    /\ mpc = "idle"
    /\ runs = <<>>
    /\ idx = 0
    /\ mloc = <<>>
    /\ local_summary = <<>>
    /\ store = <<>>
    /\ update_calls = <<>>
    /\ printed = 0

InitProcs(ps, a, slurm, device_count) ==
    /\ procs = ps
    /\ IS_ON_SLURM = slurm
    /\ cuda_device_count = device_count
    /\ pc = [p \in ps |-> "argv"]
    /\ cli = [p \in ps |-> a]
    /\ args = [p \in ps |-> a]
    /\ loc = [p \in ps |-> NoLocals]
    /\ built = [p \in ps |-> {}]
    /\ calls = [p \in ps |-> {}]
    /\ sink = [p \in ps |-> NoSink]
    /\ wandb_summary = [p \in ps |-> {}]

InitSchedule == \E a \in ScheduleArgs : InitProcs({0}, a, FALSE, a.num_devices)

InitRounding == \E a \in RoundingArgs : InitProcs({0}, a, FALSE, a.num_devices)

InitDevices == \E a \in DeviceArgs : \E device_count \in 0..MaxProcs :
                   InitProcs({0}, a, FALSE, device_count)

InitRanks == \E nd \in 1..MaxProcs : \E a \in RankArgs(nd) : \E slurm \in BOOLEAN :
                 InitProcs(0..(nd - 1), a, slurm, nd)

Init == (InitSchedule \/ InitRounding \/ InitDevices \/ InitRanks) /\ MfuIdle

(***************************************************************************)
(* The steps of one process.                                               *)
(***************************************************************************)
\* line 498: dargparse builds TrainingArgs, whose __post_init__ (lines 195-207) runs.
Parse(p) ==
    /\ pc[p] = "argv"
    /\ args' = [args EXCEPT ![p] = post_init(args[p])]
    /\ pc' = [pc EXCEPT ![p] = "parsed"]
    /\ UNCHANGED <<procs, IS_ON_SLURM, cuda_device_count, cli, loc, built, calls, sink, wandb_summary, mfuVars>>

\* lines 251-303: rank, resume_training reset, W&B logger, automatic device
\* count, check of the requested CUDA devices.
Setup(p) ==
    /\ pc[p] = "parsed"
    /\ loc' = [loc EXCEPT ![p].current_process_rank = p]
    /\ built' = [built EXCEPT ![p] = @ \cup {"wandb_logger"}]
    /\ LET r == auto_arguments(
                    [args[p] EXCEPT !.resume_training =
                         (args[p].checkpoint_path = "wandb" /\ args[p].resume_training)],
                    cuda_device_count)
       IN  /\ args' = [args EXCEPT ![p] = r.args]
           /\ pc' = [pc EXCEPT ![p] = IF r.raised THEN "cuda_error" ELSE "setup"]
    /\ UNCHANGED <<procs, IS_ON_SLURM, cuda_device_count, cli, calls, sink, wandb_summary, mfuVars>>

\* line 304
BatchSize(p) ==
    /\ pc[p] = "setup"
    /\ LET r == handle_batch_size_logic_(args[p])
       IN  /\ args' = [args EXCEPT ![p] = r.args]
           /\ loc' = [loc EXCEPT ![p].effective_batch_size_per_step =
                                     r.effective_batch_size_per_step]
    /\ pc' = [pc EXCEPT ![p] = "batch"]
    /\ UNCHANGED <<procs, IS_ON_SLURM, cuda_device_count, cli, built, calls, sink, wandb_summary, mfuVars>>

\* lines 327-337
Units_(p) ==
    /\ pc[p] = "batch"
    /\ LET u == goal_units(args[p], loc[p].effective_batch_size_per_step)
       IN  IF u.raised
           THEN /\ pc' = [pc EXCEPT ![p] = "error"]
                /\ loc' = loc
           ELSE /\ pc' = [pc EXCEPT ![p] = "units"]
                /\ loc' = [loc EXCEPT
                     ![p].goal_units_per_optimizer_step = u.goal_units_per_optimizer_step,
                     ![p].goal_units_per_forward_pass = u.goal_units_per_forward_pass]
    /\ UNCHANGED <<procs, IS_ON_SLURM, cuda_device_count, cli, args, built, calls, sink, wandb_summary, mfuVars>>

\* lines 340-346
Schedule(p) ==
    /\ pc[p] = "units"
    /\ LET r == resolve_schedule(args[p], loc[p].goal_units_per_optimizer_step,
                                 loc[p].goal_units_per_forward_pass)
       IN  /\ args' = [args EXCEPT ![p] = r.args]
           /\ loc' = [loc EXCEPT ![p].val_frequency_in_optimization_steps =
                                     r.val_frequency_in_optimization_steps]
    /\ pc' = [pc EXCEPT ![p] = "schedule"]
    /\ UNCHANGED <<procs, IS_ON_SLURM, cuda_device_count, cli, built, calls, sink, wandb_summary, mfuVars>>

\* lines 348-422: tokenizer, checkpoint callback, checkpoint download, model.
BuildModel(p) ==
    /\ pc[p] = "schedule"
    /\ built' = [built EXCEPT ![p] = @ \cup {"tokenizer", "checkpoint_callback", "model"}]
    /\ sink' = [sink EXCEPT ![p].every_n_train_steps = args[p].model_log_frequency.n]
    /\ args' = [args EXCEPT ![p].checkpoint_path =
                    IF args[p].checkpoint_path = None
                    THEN None
                    ELSE check_for_wandb_checkpoint_and_download_if_necessary(
                             args[p].checkpoint_path)]
    /\ pc' = [pc EXCEPT ![p] = "model"]
    /\ UNCHANGED <<procs, IS_ON_SLURM, cuda_device_count, cli, loc, calls, wandb_summary, mfuVars>>

\* lines 424-472: data module, callbacks, Trainer.
BuildTrainer(p) ==
    /\ pc[p] = "model"
    /\ built' = [built EXCEPT ![p] = @ \cup {"dm", "trainer"}]
    /\ sink' = [sink EXCEPT ![p].max_steps = args[p].training_goal,
                            ![p].accumulate_grad_batches =
                                args[p].gradient_accumulation_steps]
    /\ pc' = [pc EXCEPT ![p] = "trainer"]
    /\ UNCHANGED <<procs, IS_ON_SLURM, cuda_device_count, cli, args, loc, calls, wandb_summary, mfuVars>>

\* lines 474-480
Validate(p) ==
    /\ pc[p] = "trainer"
    /\ IF args[p].val_before_training /\ ~args[p].resume_training
       THEN /\ calls' = [calls EXCEPT ![p] = @ \cup {"validate"}]
            /\ pc' = [pc EXCEPT ![p] = IF args[p].val_only THEN "exited" ELSE "validated"]
       ELSE /\ calls' = calls
            /\ pc' = [pc EXCEPT ![p] = "validated"]
    /\ UNCHANGED <<procs, IS_ON_SLURM, cuda_device_count, cli, args, loc, built, sink, wandb_summary, mfuVars>>

\* lines 482-483: trainer.fit returns, interrupted or not.
Fit(p) ==
    /\ pc[p] = "validated"
    /\ calls' = [calls EXCEPT ![p] = @ \cup {"fit"}]
    /\ \E interrupted \in BOOLEAN : loc' = [loc EXCEPT ![p].interrupted = interrupted]
    /\ pc' = [pc EXCEPT ![p] = "fitted"]
    /\ UNCHANGED <<procs, IS_ON_SLURM, cuda_device_count, cli, args, built, sink, wandb_summary, mfuVars>>

\* lines 484-494
Finish(p) ==
    /\ pc[p] = "fitted"
    /\ wandb_summary' = [wandb_summary EXCEPT ![p] =
           final_summary(loc[p].current_process_rank, loc[p].interrupted, IS_ON_SLURM)]
    /\ pc' = [pc EXCEPT ![p] = "done"]
    /\ UNCHANGED <<procs, IS_ON_SLURM, cuda_device_count, cli, args, loc, built, calls, sink, mfuVars>>

Next ==
    \/ \E p \in procs : Parse(p)
    \/ \E p \in procs : Setup(p)
    \/ \E p \in procs : BatchSize(p)
    \/ \E p \in procs : Units_(p)
    \/ \E p \in procs : Schedule(p)
    \/ \E p \in procs : BuildModel(p)
    \/ \E p \in procs : BuildTrainer(p)
    \/ \E p \in procs : Validate(p)
    \/ \E p \in procs : Fit(p)
    \/ \E p \in procs : Finish(p)

Spec == Init /\ [][Next]_vars

(***************************************************************************)
(* Properties of the schedule resolution in train.py.                      *)
(***************************************************************************)
BeforeConversion == {"parsed", "setup", "batch", "units"}
AfterUnits == {"units", "schedule", "model", "trainer", "validated", "exited",
               "fitted", "done"}
AfterSchedule == AfterUnits \ {"units"}
TrainingResources == {"tokenizer", "checkpoint_callback", "model", "dm", "trainer"}

\* per_device_batch_size * device_count * gradient_accumulation_steps
RealizedEffectiveBatchSize(a) ==
    a.batch_size_per_device * a.num_devices * a.gradient_accumulation_steps

\* the goal units one optimizer step consumes, as the specification states them
UnitsPerOptimizerStep(a) ==
    CASE a.training_goal_unit = "samples" -> RealizedEffectiveBatchSize(a)
      [] a.training_goal_unit = "tokens" ->
             RealizedEffectiveBatchSize(a) * a.max_sequence_length
      [] a.training_goal_unit = "optimizer-steps" -> 1

\* x = floor(v / u) for rationals v, u > 0
IsFloorOfQuotient(x, v, u) ==
    /\ x * u.n * v.d <= v.n * u.d
    /\ v.n * u.d < (x + 1) * u.n * v.d

\* C1: for every recognized unit the max_steps handed to the Trainer is
\* floor(G / units_per_optimizer_step), G the training goal given on the
\* command line; 10,000,000 samples at effective batch size 256 give 39062.
C1_MaxSteps ==
    \A p \in procs :
        "trainer" \in built[p] =>
            /\ cli[p].training_goal_unit \in RecognizedUnits
            /\ sink[p].max_steps =
                   cli[p].training_goal \div UnitsPerOptimizerStep(args[p])
            /\ (/\ cli[p].training_goal = 10000000
                /\ cli[p].training_goal_unit = "samples"
                /\ RealizedEffectiveBatchSize(args[p]) = 256) => sink[p].max_steps = 39062

C1_Witness ==
    \E p \in procs :
        /\ "trainer" \in built[p]
        /\ cli[p].training_goal = 10000000
        /\ cli[p].training_goal_unit = "samples"
        /\ RealizedEffectiveBatchSize(args[p]) = 256
        /\ sink[p].max_steps = 39062

\* C2: the validation cadence is the resolved val_frequency divided by
\* units_per_forward_pass, floored; checkpoint cadence and warmup are divided
\* by units_per_optimizer_step, floored; so with g accumulation steps the
\* validation cadence lies in [g * v, g * (v + 1)) for v the same value in
\* optimizer steps.
C2_Cadences ==
    \A p \in procs :
        pc[p] \in AfterSchedule =>
            LET r == post_init(cli[p])
                g == args[p].gradient_accumulation_steps
                v == loc[p].val_frequency_in_optimization_steps
            IN  /\ args[p].val_frequency.d = 1
                /\ args[p].model_log_frequency.d = 1
                /\ args[p].lr_warmup.d = 1
                /\ IsFloorOfQuotient(args[p].val_frequency.n, r.val_frequency,
                                     loc[p].goal_units_per_forward_pass)
                /\ IsFloorOfQuotient(args[p].model_log_frequency.n, r.model_log_frequency,
                                     loc[p].goal_units_per_optimizer_step)
                /\ IsFloorOfQuotient(args[p].lr_warmup.n, r.lr_warmup,
                                     loc[p].goal_units_per_optimizer_step)
                /\ IsFloorOfQuotient(v, r.val_frequency,
                                     loc[p].goal_units_per_optimizer_step)
                /\ g * v <= args[p].val_frequency.n
                /\ args[p].val_frequency.n < g * (v + 1)

\* x = floor(goal * v) for a rational v >= 0
IsFloorOfProduct(x, goal, v) ==
    /\ x * v.d <= goal * v.n
    /\ goal * v.n < (x + 1) * v.d

ResolvedAsPostInit(goal, given, resolved) ==
    IF given.n < given.d
    THEN resolved.d = 1 /\ IsFloorOfProduct(resolved.n, goal, given)
    ELSE resolved = given

\* C3: __post_init__ turns a value V < 1 of val_frequency, model_log_frequency
\* and lr_warmup into floor(training_goal * V) and leaves V >= 1 unchanged;
\* V = 1 stays 1, and 0.05 of 10,000,000 is 500000.
C3_PostInit ==
    \A p \in procs :
        pc[p] \in BeforeConversion =>
            /\ ResolvedAsPostInit(cli[p].training_goal, cli[p].val_frequency,
                                  args[p].val_frequency)
            /\ ResolvedAsPostInit(cli[p].training_goal, cli[p].model_log_frequency,
                                  args[p].model_log_frequency)
            /\ ResolvedAsPostInit(cli[p].training_goal, cli[p].lr_warmup,
                                  args[p].lr_warmup)
            /\ cli[p].val_frequency = IntRat(1) => args[p].val_frequency = IntRat(1)
            /\ (cli[p].val_frequency = Rat(1, 20) /\ cli[p].training_goal = 10000000)
                   => args[p].val_frequency = IntRat(500000)

\* C4: the goal-unit conversion uses the realized effective batch size:
\* units_per_optimizer_step is realized (samples), realized * max_sequence_length
\* (tokens) or 1 (optimizer-steps), units_per_forward_pass is that divided by
\* gradient_accumulation_steps, so the former is gradient_accumulation_steps
\* times the latter.
C4_RealizedUnits ==
    \A p \in procs :
        pc[p] \in AfterUnits =>
            LET g == args[p].gradient_accumulation_steps
                upos == loc[p].goal_units_per_optimizer_step
                upfp == loc[p].goal_units_per_forward_pass
            IN  /\ upos = IntRat(UnitsPerOptimizerStep(args[p]))
                /\ upfp = Rat(UnitsPerOptimizerStep(args[p]), g)
                /\ upos.n * upfp.d = g * upfp.n * upos.d

C4_Witness ==
    \E p \in procs :
        /\ pc[p] \in AfterUnits
        /\ cli[p].training_goal_unit = "tokens"
        /\ cli[p].effective_batch_size = 4
        /\ RealizedEffectiveBatchSize(args[p]) = 6
        /\ args[p].gradient_accumulation_steps = 2
        /\ loc[p].goal_units_per_optimizer_step = IntRat(6 * args[p].max_sequence_length)
        /\ loc[p].goal_units_per_forward_pass = IntRat(3 * args[p].max_sequence_length)

\* C5: a schedule with a zero or negative step count (total optimizer steps,
\* warmup, validation cadence, checkpoint cadence) is never handed on to the
\* checkpoint callback or the trainer: resolution fails instead.
C5_NoEmptySchedule ==
    \A p \in procs :
        /\ "checkpoint_callback" \in built[p] =>
               /\ sink[p].every_n_train_steps > 0
               /\ args[p].lr_warmup.n > 0
               /\ args[p].val_frequency.n > 0
        /\ "trainer" \in built[p] => sink[p].max_steps > 0

\* C6: with an unrecognized training_goal_unit main raises before any
\* training resource exists: no tokenizer, checkpoint callback, model, data
\* module or Trainer is constructed and neither validate nor fit is called.
C6_UnknownUnitStopsEarly ==
    \A p \in procs :
        cli[p].training_goal_unit \notin RecognizedUnits =>
            /\ built[p] \cap TrainingResources = {}
            /\ calls[p] = {}
            /\ pc[p] \in {"argv", "parsed", "cuda_error", "setup", "batch", "error"}

C6_Witness ==
    \E p \in procs :
        /\ cli[p].training_goal_unit \notin RecognizedUnits
        /\ pc[p] = "error"
        /\ built[p] = {"wandb_logger"}

AfterBatchSize == AfterUnits \cup {"batch", "error"}

\* C12: the batch-size resolution at startup yields
\* gradient_accumulation_steps = max(1, ceil(requested / (per_device_batch_size
\* * device_count))) >= 1 and a realized effective batch size
\* per_device_batch_size * device_count * gradient_accumulation_steps that is
\* >= requested: the accumulation steps are rounded up, never down.
C12_BatchPlan ==
    \A p \in procs :
        pc[p] \in AfterBatchSize =>
            LET requested == cli[p].effective_batch_size
                per_step == cli[p].batch_size_per_device * args[p].num_devices
                g == args[p].gradient_accumulation_steps
            IN  /\ g >= 1
                /\ args[p].effective_batch_size = per_step * g
                /\ loc[p].effective_batch_size_per_step = per_step
                /\ requested > 0 =>
                       /\ per_step * g >= requested
                       /\ per_step * (g - 1) < requested
                       /\ g = Max(1, CeilDiv(requested, per_step))

C12_Witness ==
    \E p \in procs :
        /\ pc[p] = "batch"
        /\ cli[p].effective_batch_size = 4
        /\ cli[p].batch_size_per_device = 3
        /\ cli[p].num_devices = 1
        /\ args[p].gradient_accumulation_steps = 2
        /\ args[p].effective_batch_size = 6

\* 0 < v < 1
ProperFraction(v) == 0 < v.n /\ v.n < v.d

\* C13: an lr_warmup or model_log_frequency given as a fraction in (0,1) of
\* the training goal resolves, after both truncations, to a step count that
\* does not exceed the total optimizer-step count.
C13_FractionsWithinTotal ==
    \A p \in procs :
        pc[p] \in AfterSchedule =>
            /\ args[p].training_goal
                   = cli[p].training_goal \div loc[p].goal_units_per_optimizer_step.n
            /\ ProperFraction(cli[p].lr_warmup) =>
                   args[p].lr_warmup.n <= args[p].training_goal
            /\ ProperFraction(cli[p].model_log_frequency) =>
                   args[p].model_log_frequency.n <= args[p].training_goal

C13_Witness ==
    \E p \in procs :
        /\ pc[p] \in AfterSchedule
        /\ ProperFraction(cli[p].lr_warmup)
        /\ ProperFraction(cli[p].model_log_frequency)
        /\ args[p].gradient_accumulation_steps > 1
        /\ args[p].lr_warmup.n > 0
        /\ args[p].lr_warmup.n < args[p].training_goal
        /\ args[p].model_log_frequency.n > 0
        /\ args[p].model_log_frequency.n < args[p].lr_warmup.n

(***************************************************************************)
(* The final summary write-back of a multi-process run.                    *)
(***************************************************************************)
Writers == {p \in procs : wandb_summary[p] # {}}

\* C7 as stated: once every process of a multi-process run has returned from
\* fit and finished, exactly one process, rank 0, has written the summary.
C7_ExactlyOneWriter ==
    (Cardinality(procs) > 1 /\ \A p \in procs : pc[p] = "done") => Writers = {0}

\* C7, amended: no process of nonzero rank writes the summary; rank 0 writes
\* all four keys when it finishes, unless its trainer was interrupted under
\* SLURM, and then no process writes.
C7_OnlyRankZeroWrites ==
    /\ \A p \in procs : wandb_summary[p] # {} =>
           /\ loc[p].current_process_rank = 0
           /\ pc[p] = "done"
           /\ wandb_summary[p] = SummaryKeys
    /\ Cardinality(Writers) <= 1
    /\ \A p \in procs :
           (pc[p] = "done" /\ loc[p].current_process_rank = 0) =>
               (wandb_summary[p] = SummaryKeys <=> ~(loc[p].interrupted /\ IS_ON_SLURM))

C7_Witness ==
    /\ Cardinality(procs) > 1
    /\ \A p \in procs : pc[p] = "done"
    /\ Writers = {0}
    /\ \E p \in procs : p # 0 /\ ~(loc[p].interrupted /\ IS_ON_SLURM)

(***************************************************************************)
(* compute_mfu.py, lines 3-7: the constants of the script.                 *)
(***************************************************************************)
gpu_constant == FromDec(15485, -2)
parameters == FDiv(FromInt(125000000), FromInt(Pow(10, 9)))
layers == 12
heads == 12
head_dimension_per_thousand == FDiv(FromInt(64), FromInt(Pow(10, 3)))
head_dimension == FDiv(FromInt(64), FromInt(Pow(10, 6)))

\* line 13
scaled_sequence_length(max_sequence_length) ==
    FDiv(FromInt(max_sequence_length), FromInt(Pow(10, 3)))

\* line 14
theoretical_R(sequence_length) ==
    FDiv(gpu_constant,
         FAdd(FMul(FromInt(6), parameters),
              FMul(FMul(FromInt(12 * layers * heads), head_dimension),
                   sequence_length)))

\* line 15
unscaled_mean_tokens(tokens_per_second_mean) == tokens_per_second_mean

scaled_mean_tokens(tokens_per_second_mean) ==
    FDiv(tokens_per_second_mean, FromInt(1000))

\* line 16
GreaterThanOne(q) ==
    q.n * Pow(2, Max(q.two, 0)) * Pow(5, Max(q.five, 0))
        > q.d * Pow(2, Max(-q.two, 0)) * Pow(5, Max(-q.five, 0))

clamped_mfu(mean_tokens, R) ==
    LET q == FDiv(mean_tokens, R)
    IN  IF GreaterThanOne(q) THEN FromInt(1) ELSE q

compute_mfu(mean_tokens, R) == FDiv(mean_tokens, R)

\* line 19
max_tokens_theoretical(R) == FMul(R, FromInt(1000))

(***************************************************************************)
(* The runs of the tracking store that carry the tag "report".  A run      *)
(* without config max_sequence_length has 0 there; has_tokens tells        *)
(* whether summary TokensPerSecond.mean exists; update_ok whether          *)
(* run.summary.update() succeeds.                                          *)
(***************************************************************************)
\* 154.85e12 / (6*P + 12*L*H*d*S) in FLOP/s and FLOPs per token.
PeakTokensPerSecond(S) ==
    FDiv(FromDec(15485, 10), FromInt(6 * 125000000 + 12 * 12 * 12 * 64 * S))

Ks == {FromDec(5, -1), FromInt(1), FromDec(15, -1), FromInt(2)}

RunSequenceLengths == {256 * j : j \in 1..MaxSeqMult}

ObservedMeans(S) == {FMul(k, PeakTokensPerSecond(S)) : k \in Ks} \cup {FromInt(100000)}

Run(S, has_tokens, mean, update_ok) ==
    [max_sequence_length |-> S, has_tokens |-> has_tokens,
     tokens_per_second_mean |-> mean, update_ok |-> update_ok]

StoredRuns ==
    UNION { { Run(S, TRUE, m, ok) : m \in ObservedMeans(S), ok \in BOOLEAN } :
              S \in RunSequenceLengths }
    \cup { Run(S, FALSE, FromInt(0), ok) : S \in RunSequenceLengths \cup {0}, ok \in BOOLEAN }
    \cup { Run(0, TRUE, FromInt(100000), ok) : ok \in BOOLEAN }

RECURSIVE SeqsUpTo(_, _)
SeqsUpTo(S, k) ==
    IF k = 0 THEN {<<>>}
    ELSE LET shorter == SeqsUpTo(S, k - 1)
         IN  shorter \cup {Append(q, x) : q \in {r \in shorter : Len(r) = k - 1}, x \in S}

NoMfuLocals ==
    [sequence_length |-> FromInt(0), R |-> FromInt(0),
     mean_tokens |-> FromInt(0), mfu |-> FromInt(0)]

MainIdle ==
    /\ procs = {}
    /\ IS_ON_SLURM = FALSE
    /\ cuda_device_count = 0
    /\ pc = <<>>
    /\ cli = <<>>
    /\ args = <<>>
    /\ loc = <<>>
    /\ built = <<>>
    /\ calls = <<>>
    /\ sink = <<>>
    /\ wandb_summary = <<>>

\* lines 9-10: the collection is fetched.
InitMfu ==
    /\ MainIdle
    /\ runs \in SeqsUpTo(StoredRuns, MaxRuns)
    /\ mpc = "for"
    /\ idx = 0
    /\ mloc = NoMfuLocals
    /\ local_summary = [i \in 1..Len(runs) |-> <<>>]
    /\ store = [i \in 1..Len(runs) |-> <<>>]
    /\ update_calls = [i \in 1..Len(runs) |-> 0]
    /\ printed = 0

Put(f, k, v) == [x \in DOMAIN f \cup {k} |-> IF x = k THEN v ELSE f[x]]

Merge(f, g) == [x \in DOMAIN f \cup DOMAIN g |-> IF x \in DOMAIN g THEN g[x] ELSE f[x]]

\* line 12: the loop takes the next run, or ends.
ForRun ==
    /\ mpc = "for"
    /\ IF idx < Len(runs)
       THEN /\ idx' = idx + 1
            /\ mpc' = "line13"
       ELSE /\ idx' = idx
            /\ mpc' = "done"
    /\ UNCHANGED <<runs, mloc, local_summary, store, update_calls, printed, mainVars>>

\* line 13: KeyError when the config has no max_sequence_length.
ReadConfig ==
    /\ mpc = "line13"
    /\ IF runs[idx].max_sequence_length = 0
       THEN /\ mpc' = "crashed"
            /\ mloc' = mloc
       ELSE /\ mpc' = "line14"
            /\ mloc' = [mloc EXCEPT !.sequence_length =
                            scaled_sequence_length(runs[idx].max_sequence_length)]
    /\ UNCHANGED <<runs, idx, local_summary, store, update_calls, printed, mainVars>>

\* line 14
Peak ==
    /\ mpc = "line14"
    /\ mloc' = [mloc EXCEPT !.R = theoretical_R(mloc.sequence_length)]
    /\ mpc' = "line15"
    /\ UNCHANGED <<runs, idx, local_summary, store, update_calls, printed, mainVars>>

\* line 15: KeyError when the summary has no TokensPerSecond.
ReadTokens ==
    /\ mpc = "line15"
    /\ IF ~runs[idx].has_tokens
       THEN /\ mpc' = "crashed"
            /\ mloc' = mloc
       ELSE /\ mpc' = "line16"
            /\ mloc' = [mloc EXCEPT !.mean_tokens =
                            scaled_mean_tokens(runs[idx].tokens_per_second_mean)]
    /\ UNCHANGED <<runs, idx, local_summary, store, update_calls, printed, mainVars>>

\* lines 16-17
Mfu ==
    /\ mpc = "line16"
    /\ mloc' = [mloc EXCEPT !.mfu = compute_mfu(mloc.mean_tokens, mloc.R)]
    /\ printed' = printed + 1
    /\ mpc' = "line18"
    /\ UNCHANGED <<runs, idx, local_summary, store, update_calls, mainVars>>

\* line 18
SetMeanMfu ==
    /\ mpc = "line18"
    /\ local_summary' = [local_summary EXCEPT ![idx] = Put(@, "mean_mfu", mloc.mfu)]
    /\ mpc' = "line19"
    /\ UNCHANGED <<runs, idx, mloc, store, update_calls, printed, mainVars>>

\* line 19
SetMaxTokens ==
    /\ mpc = "line19"
    /\ local_summary' = [local_summary EXCEPT ![idx] =
                             Put(@, "max_tokens_theoretical", max_tokens_theoretical(mloc.R))]
    /\ mpc' = "line20"
    /\ UNCHANGED <<runs, idx, mloc, store, update_calls, printed, mainVars>>

\* line 20: the fields set locally are sent to the store, or update raises.
update_left_out ==
    /\ mpc = "line20"
    /\ mpc' = "for"
    /\ UNCHANGED <<runs, idx, mloc, local_summary, store, update_calls, printed, mainVars>>

Update ==
    /\ mpc = "line20"
    /\ update_calls' = [update_calls EXCEPT ![idx] = @ + 1]
    /\ IF runs[idx].update_ok
       THEN /\ store' = [store EXCEPT ![idx] = Merge(@, local_summary[idx])]
            /\ local_summary' = [local_summary EXCEPT ![idx] = <<>>]
            /\ mpc' = "for"
       ELSE /\ store' = store
            /\ local_summary' = local_summary
            /\ mpc' = "crashed"
    /\ UNCHANGED <<runs, idx, mloc, printed, mainVars>>

NextMfu ==
    \/ ForRun
    \/ ReadConfig
    \/ Peak
    \/ ReadTokens
    \/ Mfu
    \/ SetMeanMfu
    \/ SetMaxTokens
    \/ Update

SpecMfu == InitMfu /\ [][NextMfu]_vars

(***************************************************************************)
(* Properties of the MFU backfill.                                         *)
(***************************************************************************)
Fields(f) == DOMAIN f
BothFields == {"mean_mfu", "max_tokens_theoretical"}

\* C8: the max_tokens_theoretical written for a run is
\* 154.85e12 / (6*P + 12*L*H*d*S) with P = 125,000,000, L = H = 12, d = 64 and
\* S the run's max_sequence_length, every term in the same units.
C8_TheoreticalPeak ==
    \A i \in 1..Len(runs) :
        /\ "max_tokens_theoretical" \in Fields(local_summary[i]) =>
               local_summary[i]["max_tokens_theoretical"]
                   = PeakTokensPerSecond(runs[i].max_sequence_length)
        /\ "max_tokens_theoretical" \in Fields(store[i]) =>
               store[i]["max_tokens_theoretical"]
                   = PeakTokensPerSecond(runs[i].max_sequence_length)

C8_Witness ==
    \E i \in 1..Len(runs) :
        /\ runs[i].max_sequence_length = 512
        /\ "max_tokens_theoretical" \in Fields(store[i])
        /\ store[i]["max_tokens_theoretical"]
               = FDiv(FromDec(15485, 10), FromInt(806623104))

\* C9: the mean_mfu written for a run is its TokensPerSecond.mean divided by
\* the max_tokens_theoretical written for it, unclamped: an observed mean of
\* k times the peak gives k, also for k > 1.
C9_MfuIsRatio ==
    \A i \in 1..Len(runs) :
        BothFields \subseteq Fields(store[i]) =>
            /\ store[i]["mean_mfu"]
                   = FDiv(runs[i].tokens_per_second_mean, store[i]["max_tokens_theoretical"])
            /\ \A k \in Ks :
                   runs[i].tokens_per_second_mean
                       = FMul(k, store[i]["max_tokens_theoretical"])
                   => store[i]["mean_mfu"] = k

C9_Witness ==
    \E i \in 1..Len(runs) :
        /\ BothFields \subseteq Fields(store[i])
        /\ runs[i].tokens_per_second_mean
               = FMul(FromDec(15, -1), store[i]["max_tokens_theoretical"])
        /\ store[i]["mean_mfu"] = FromDec(15, -1)

\* C10: update is called for a run only with both fields set, once, before
\* the next run is touched; when the loop completes every run has been
\* committed once and none holds a field that was set and not committed.
C10_CommitAfterMutation ==
    /\ \A i \in 1..Len(runs) :
           /\ update_calls[i] <= 1
           /\ update_calls[i] = 1 =>
                  BothFields \subseteq (Fields(store[i]) \cup Fields(local_summary[i]))
           /\ Fields(store[i]) # {} => (update_calls[i] = 1 /\ Fields(store[i]) = BothFields)
           /\ Fields(local_summary[i]) # {} => i = idx
           /\ (i < idx \/ (i = idx /\ mpc = "for")) =>
                  /\ update_calls[i] = 1
                  /\ Fields(local_summary[i]) = {}
                  /\ Fields(store[i]) = BothFields
           /\ i > idx => (update_calls[i] = 0 /\ Fields(store[i]) = {})
    /\ mpc = "done" =>
           \A i \in 1..Len(runs) :
               /\ update_calls[i] = 1
               /\ Fields(local_summary[i]) = {}
               /\ Fields(store[i]) = BothFields

C10_Witness ==
    /\ mpc = "done"
    /\ Len(runs) >= 2
    /\ \A i \in 1..Len(runs) : update_calls[i] = 1 /\ Fields(store[i]) = BothFields

\* a run whose reads and whose update all succeed
Healthy(r) == r.max_sequence_length # 0 /\ r.has_tokens /\ r.update_ok

\* C11: a failing read or write for one run aborts the analysis of that run
\* only: when the script has ended, every other run has both fields written
\* and committed.
C11_OtherRunsContinue ==
    mpc \in {"done", "crashed"} =>
        \A i \in 1..Len(runs) :
            Healthy(runs[i]) =>
                /\ update_calls[i] = 1
                /\ Fields(store[i]) = BothFields

====
